---- MODULE Spec2Model ----
(***************************************************************************)
(* kubectl-free: the "free" command (pkg/cmd), its container list mode     *)
(* (showpods.go) and the output table (pkg/table).                         *)
(*                                                                         *)
(* Pointers are modelled as sequences of length at most one: Nil is the    *)
(* nil pointer, Ptr(v) points to v.  Go strings are TLA+ strings; a line   *)
(* of the table is the sequence of its cells interleaved with tab tokens.  *)
(***************************************************************************)
EXTENDS Integers, Sequences, FiniteSets, TLC

VARIABLES
    pc,               \* position of the command: see the actions below
    o,                \* the FreeOptions struct
    cluster,          \* what the API server holds: nodes, pods, containers, metrics
    nodes,            \* Run: the node list GetNodes returned
    nodesErr,         \* Run: the error GetNodes returned (Nil: none)
    podMetrics,       \* showPodsOnNode: the podMetrics pointer
    metricsErr,       \* showPodsOnNode: the error of the metrics call, which it drops
    nodeIdx,          \* showPodsOnNode: number of nodes the node loop has finished
    nodePods,         \* showPodsOnNode: rows built for the latest node, before sorting
    sortedPods,       \* showPodsOnNode: the same rows as sortEntries returned them
    table,            \* o.table: [Header, Rows]
    stdout,           \* the lines table.Print wrote
    err,              \* the error the latest handler returned (Nil: none)
    exitCode,         \* process exit status (Nil while running)
    arg,              \* input of the pure function under check
    ret               \* its result

vars == <<pc, o, cluster, nodes, nodesErr, podMetrics, metricsErr, nodeIdx,
          nodePods, sortedPods, table, stdout, err, exitCode, arg, ret>>

----------------------------------------------------------------------------
(* Bounds of the model *)

\* nodes the API server returns at most
MaxNodes == 2
\* containers in the whole cluster at most
MaxTotal == 2
\* rows handed to sortEntries at most, when it is checked on its own
MaxRows == 4
\* percentages handed to toColorPercent range over 0..MaxPercent
MaxPercent == 5

----------------------------------------------------------------------------
(* Pointers and small helpers *)

Nil == << >>
Ptr(v) == <<v>>
Deref(p) == p[1]

SeqsUpTo(S, n) == UNION {[1..k -> S] : k \in 0..n}

\* s without its i-th element
RemoveAt(s, i) == SubSeq(s, 1, i - 1) \o SubSeq(s, i + 1, Len(s))

\* the permutations of a sequence, as sequences
RECURSIVE Perms(_)
Perms(s) ==
    IF s = << >> THEN {<< >>}
    ELSE UNION {{<<s[i]>> \o p : p \in Perms(RemoveAt(s, i))} : i \in 1..Len(s)}

----------------------------------------------------------------------------
(* sortResource *)

memorySortResource == "memory"
cpuSortResource == "cpu"

----------------------------------------------------------------------------
(* NewFreeOptions *)

NewFreeOptions ==
    [ bytes |-> FALSE, kByte |-> FALSE, mByte |-> TRUE, gByte |-> FALSE,
      withoutUnit |-> FALSE, binPrefix |-> FALSE,
      nocolor |-> FALSE, warnThreshold |-> 60, critThreshold |-> 90,
      list |-> FALSE, listContainerImage |-> FALSE, listAll |-> FALSE,
      pod |-> FALSE, emojiStatus |-> FALSE, allNamespaces |-> TRUE,
      noHeaders |-> FALSE, noMetrics |-> FALSE,
      sortByResource |-> memorySortResource, compactView |-> TRUE,
      metricsPodClient |-> FALSE,      \* TRUE once Complete has set the client
      listTableHeaders |-> << >> ]

----------------------------------------------------------------------------
(* pkg/util and the Kubernetes libraries, as far as the command uses them *)

\* util.GetSiUnit: the byte count and the suffix of the chosen decimal unit
GetSiUnit(b, k, m, g) ==
    IF b THEN <<1, "B">>
    ELSE IF k THEN <<1000, "K">>
    ELSE IF m THEN <<1000000, "M">>
    ELSE IF g THEN <<1000000000, "G">>
    ELSE <<1, "B">>

\* util.GetBinUnit: the same for the binary units
GetBinUnit(b, k, m, g) ==
    IF b THEN <<1, "B">>
    ELSE IF k THEN <<1024, "Ki">>
    ELSE IF m THEN <<1048576, "Mi">>
    ELSE IF g THEN <<1073741824, "Gi">>
    ELSE <<1, "B">>

\* util.JoinTab: the cells of a line joined by tabs
RECURSIVE JoinTab(_)
JoinTab(cells) ==
    IF Len(cells) <= 1 THEN cells
    ELSE <<Head(cells), "\t">> \o JoinTab(Tail(cells))

\* the number of tab-separated columns of a line
Columns(line) == IF line = << >> THEN 0
                 ELSE Cardinality({i \in 1..Len(line) : line[i] = "\t"}) + 1

\* the k-th tab-separated cell of a line
Cell(line, k) == line[2 * k - 1]

\* util.Green, util.Yellow, util.Red, util.DefaultColor: wrap in an ANSI colour
Green(p) == "<ESC>[32m" \o p \o "<ESC>[0m"
Yellow(p) == "<ESC>[33m" \o p \o "<ESC>[0m"
Red(p) == "<ESC>[31m" \o p \o "<ESC>[0m"
DefaultColor(p) == "<ESC>[0m" \o p \o "<ESC>[0m"

\* util.GetPodStatus: the phase, coloured unless nocolor
GetPodStatus(phase, nocolor, emoji) ==
    IF nocolor THEN phase
    ELSE IF phase = "Running" THEN Green(phase) ELSE Red(phase)

\* util.ValidateThreshold: an error when warn > crit
ValidateThreshold(warn, crit) ==
    IF warn > crit THEN Ptr("can not set critical threshold less than warn threshold")
    ELSE Nil

\* util.GetContainerMetrics: the cpu and memory usage pointers of one container
\* of one pod in a PodMetricsList, (nil, nil) when the list has no such entry
GetContainerMetrics(pm, podName, containerName) ==
    LET hit == {m \in pm.Items : m.pod = podName /\ m.container = containerName}
    IN IF hit = {} THEN <<Nil, Nil>>
       ELSE LET m == CHOOSE x \in hit : TRUE
            IN <<Ptr(m.cpu), Ptr(m.memory)>>

\* duration.HumanDuration, in whole days
HumanDuration(d) == ToString(d) \o "d"

\* strconv.FormatInt(i, 10)
FormatInt(i) == ToString(i)

\* resource.NewMilliQuantity(i, resource.DecimalSI).String(): whole cores
\* without suffix, anything else in millicores
MilliQuantityString(i) ==
    IF i % 1000 = 0 THEN FormatInt(i \div 1000) ELSE FormatInt(i) \o "m"

\* Quantity.Cmp: -1, 0 or 1
Cmp(a, b) == IF a < b THEN -1 ELSE IF a > b THEN 1 ELSE 0

----------------------------------------------------------------------------
(* Formatting (FreeOptions.toUnit, toUnitOrDash, toMilliUnitOrDash) *)

toUnit(opt, i) ==
    LET u == IF opt.binPrefix
             THEN GetBinUnit(opt.bytes, opt.kByte, opt.mByte, opt.gByte)
             ELSE GetSiUnit(opt.bytes, opt.kByte, opt.mByte, opt.gByte)
        unit == IF ~opt.withoutUnit THEN u[2] ELSE ""
    IN FormatInt(i \div u[1]) \o unit

toUnitOrDash(opt, i) == IF i = 0 THEN "-" ELSE toUnit(opt, i)

toMilliUnitOrDash(opt, i) ==
    IF i = 0 THEN "-"
    ELSE IF opt.withoutUnit THEN FormatInt(i)
    ELSE MilliQuantityString(i)

----------------------------------------------------------------------------
(* Severity colouring (FreeOptions.toColorPercent) *)

\* toColorPercent with the warn threshold itself still green
toColorPercentWarnInclusive(opt, i) ==
    LET p == FormatInt(i) \o "%"
    IN IF opt.nocolor THEN p
       ELSE IF i <= opt.warnThreshold THEN Green(p)
       ELSE IF i < opt.critThreshold THEN Yellow(p)
       ELSE Red(p)

toColorPercent(opt, i) ==
    LET p == FormatInt(i) \o "%"
    IN IF opt.nocolor THEN p
       ELSE IF i < opt.warnThreshold THEN Green(p)
       ELSE IF i < opt.critThreshold THEN Yellow(p)
       ELSE Red(p)

----------------------------------------------------------------------------
(* Sorting (FreeOptions.sortEntries) *)

\* MemoryLess with the two mixed cases exchanged: a row without a sample is
\* never less, a row with one is less than a row without
MemoryLessMissingLast(a, b) ==
    IF a.containerMemoryUsed = Nil /\ b.containerMemoryUsed = Nil THEN FALSE
    ELSE IF a.containerMemoryUsed # Nil /\ b.containerMemoryUsed = Nil THEN TRUE
    ELSE IF a.containerMemoryUsed = Nil /\ b.containerMemoryUsed # Nil THEN FALSE
    ELSE Cmp(Deref(a.containerMemoryUsed).Quantity,
             Deref(b.containerMemoryUsed).Quantity) < 0

\* MemoryLess comparing the CPU quantities of two rows that have a sample
MemoryLessByCPU(a, b) ==
    IF a.containerMemoryUsed = Nil /\ b.containerMemoryUsed = Nil THEN FALSE
    ELSE IF a.containerMemoryUsed # Nil /\ b.containerMemoryUsed = Nil THEN FALSE
    ELSE IF a.containerMemoryUsed = Nil /\ b.containerMemoryUsed # Nil THEN TRUE
    ELSE Cmp(Deref(a.containerCPUUsed).Quantity,
             Deref(b.containerCPUUsed).Quantity) < 0

\* the less function of the memory case
MemoryLess(a, b) ==
    IF a.containerMemoryUsed = Nil /\ b.containerMemoryUsed = Nil THEN FALSE
    ELSE IF a.containerMemoryUsed # Nil /\ b.containerMemoryUsed = Nil THEN FALSE
    ELSE IF a.containerMemoryUsed = Nil /\ b.containerMemoryUsed # Nil THEN TRUE
    ELSE Cmp(Deref(a.containerMemoryUsed).Quantity,
             Deref(b.containerMemoryUsed).Quantity) < 0

\* CPULess descending where both rows have a sample
CPULessDescending(a, b) ==
    IF a.containerCPUUsed = Nil /\ b.containerCPUUsed = Nil THEN FALSE
    ELSE IF a.containerCPUUsed # Nil /\ b.containerCPUUsed = Nil THEN FALSE
    ELSE IF a.containerCPUUsed = Nil /\ b.containerCPUUsed # Nil THEN TRUE
    ELSE Cmp(Deref(a.containerCPUUsed).Quantity,
             Deref(b.containerCPUUsed).Quantity) > 0

\* the less function of the cpu case
CPULess(a, b) ==
    IF a.containerCPUUsed = Nil /\ b.containerCPUUsed = Nil THEN FALSE
    ELSE IF a.containerCPUUsed # Nil /\ b.containerCPUUsed = Nil THEN FALSE
    ELSE IF a.containerCPUUsed = Nil /\ b.containerCPUUsed # Nil THEN TRUE
    ELSE Cmp(Deref(a.containerCPUUsed).Quantity,
             Deref(b.containerCPUUsed).Quantity) < 0

\* slices.SortFunc(items, less) of golang.org/x/exp/slices: the items in
\* ascending order as less determines it (less[<<a, b>>]: a is less than b).
\* The sort is documented as not stable, so elements neither of which is
\* less than the other may come out in any order: the outcomes are all
\* orderings of the items in which no element is less than one before it.
SortFunc(items, less) ==
    {r \in Perms(items) :
        \A i, j \in 1..Len(r) : i < j => ~less[<<r[j], r[i]>>]}

\* the pairs of elements of a sequence
PairsOf(items) ==
    {<<items[i], items[j]>> : i \in 1..Len(items), j \in 1..Len(items)}

\* the outcomes of sortEntries
sortEntries(opt, items) ==
    CASE opt.sortByResource = memorySortResource ->
            SortFunc(items, [ab \in PairsOf(items) |-> MemoryLess(ab[1], ab[2])])
      [] opt.sortByResource = cpuSortResource ->
            SortFunc(items, [ab \in PairsOf(items) |-> CPULess(ab[1], ab[2])])
      [] OTHER -> {items}

----------------------------------------------------------------------------
(* Table headers and rows of the list mode *)

\* FreeOptions.prepareListTableHeader: the value it stores in listTableHeaders
prepareListTableHeader(opt) ==
    LET hPodStatus == IF ~opt.nocolor THEN DefaultColor("POD STATUS")
                      ELSE "POD STATUS"
        baseHeader == <<"NODE NAME", "NAMESPACE">>
        podHeader == IF ~opt.compactView
                     THEN <<"POD NAME", "POD AGE", "POD IP", hPodStatus>>
                     ELSE <<"POD NAME", hPodStatus>>
        containerHeader == <<"CONTAINER">>
        cpuHeader == IF ~opt.noMetrics
                     THEN IF opt.compactView THEN <<"CPU/use">>
                          ELSE <<"CPU/use">> \o <<"CPU/req", "CPU/lim">>
                     ELSE <<"CPU/req", "CPU/lim">>
        memHeader == IF ~opt.noMetrics
                     THEN IF opt.compactView THEN <<"MEM/use">>
                          ELSE <<"MEM/use">> \o <<"MEM/req", "MEM/lim">>
                     ELSE <<"MEM/req", "MEM/lim">>
        imageHeader == <<"IMAGE">>
    IN baseHeader \o podHeader \o containerHeader \o cpuHeader \o memHeader
         \o (IF opt.listContainerImage THEN imageHeader ELSE << >>)

\* FreeOptions.podInfoToRow
podInfoToRow(opt, info) ==
    LET base == IF opt.compactView
                THEN <<info.nodeName, info.podNamespace, info.podName,
                       info.podStatus, info.containerName>>
                ELSE <<info.nodeName, info.podNamespace, info.podName,
                       info.podAge, info.podIP, info.podStatus,
                       info.containerName>>
        r1 == IF ~opt.noMetrics /\ info.containerCPUUsed # Nil
              THEN base \o <<Deref(info.containerCPUUsed).formatted>>
              ELSE base
        r2 == IF ~opt.compactView
              THEN r1 \o <<info.containerCPURequested, info.containerCPULimit>>
              ELSE r1
        r3 == IF ~opt.noMetrics /\ info.containerMemoryUsed # Nil
              THEN r2 \o <<Deref(info.containerMemoryUsed).formatted>>
              ELSE r2
        r4 == IF ~opt.compactView
              THEN r3 \o <<info.containerMemoryRequested, info.containerCPULimit>>
              ELSE r3
    IN IF opt.listContainerImage THEN r4 \o <<info.containerImage>> ELSE r4

\* AddRow putting the new row in front of the rows instead of behind them
AddRowPrepend(t, s) == [t EXCEPT !.Rows = <<JoinTab(s)>> \o @]

\* OutputTable.AddRow
AddRow(t, s) == [t EXCEPT !.Rows = Append(@, JoinTab(s))]

\* OutputTable.Print: the lines it writes
tablePrint(t) ==
    (IF Len(t.Header) > 0 THEN <<JoinTab(t.Header)>> ELSE << >>) \o t.Rows

----------------------------------------------------------------------------
(* Building the rows of one node (the pod and container loops of            *)
(* showPodsOnNode)                                                          *)

\* the age column of a pod: pod.created is its creation timestamp (0: the
\* zero time), pod.since the time since then
podAgeOf(pod) ==
    IF pod.created # 0 THEN HumanDuration(pod.since) ELSE "<unknown>"

\* skipContainer skipping as soon as one of the four values is not set
skipContainerAnyUnset(opt, c) ==
    ~opt.listAll /\ (c.cpuReq = 0 \/ c.cpuLim = 0 \/ c.memReq = 0 \/ c.memLim = 0)

\* whether the container loop skips the container
skipContainer(opt, c) ==
    ~opt.listAll /\ c.cpuReq = 0 /\ c.cpuLim = 0 /\ c.memReq = 0 /\ c.memLim = 0

\* the usage fields of a row: the pointers the metrics lookup fills in
usedOf(opt, pm, podName, containerName) ==
    IF ~opt.noMetrics /\ pm # Nil
    THEN LET m == GetContainerMetrics(Deref(pm), podName, containerName)
         IN << IF m[1] # Nil
               THEN Ptr([Quantity |-> Deref(m[1]),
                         formatted |-> toMilliUnitOrDash(opt, Deref(m[1]))])
               ELSE Nil,
               IF m[2] # Nil
               THEN Ptr([Quantity |-> Deref(m[2]),
                         formatted |-> toUnitOrDash(opt, Deref(m[2]))])
               ELSE Nil >>
    ELSE <<Nil, Nil>>

\* the podInfo of one container, as the container loop appends it
containerRow(opt, pm, nodeName, pod, c) ==
    LET used == usedOf(opt, pm, pod.name, c.name)
    IN [ nodeName |-> nodeName,
         podNamespace |-> pod.namespace,
         podName |-> pod.name,
         podAge |-> podAgeOf(pod),
         podIP |-> pod.podIP,
         podStatus |-> GetPodStatus(pod.phase, opt.nocolor, opt.emojiStatus),
         containerName |-> c.name,
         containerCPUUsed |-> used[1],
         containerCPURequested |-> toMilliUnitOrDash(opt, c.cpuReq),
         containerCPULimit |-> toMilliUnitOrDash(opt, c.cpuLim),
         containerMemoryUsed |-> used[2],
         containerMemoryRequested |-> toUnitOrDash(opt, c.memReq),
         containerMemoryLimit |-> toUnitOrDash(opt, c.memLim),
         containerImage |-> IF opt.listContainerImage THEN c.image ELSE "" ]

\* the rows of the containers of one pod, in spec order, skipped ones left out
RECURSIVE containerRows(_, _, _, _, _)
containerRows(opt, pm, nodeName, pod, cs) ==
    IF cs = << >> THEN << >>
    ELSE (IF skipContainer(opt, Head(cs)) THEN << >>
          ELSE <<containerRow(opt, pm, nodeName, pod, Head(cs))>>)
         \o containerRows(opt, pm, nodeName, pod, Tail(cs))

\* nodePods after the pod loop over the pods of one node
RECURSIVE podRows(_, _, _, _)
podRows(opt, pm, nodeName, pods) ==
    IF pods = << >> THEN << >>
    ELSE containerRows(opt, pm, nodeName, Head(pods), Head(pods).containers)
         \o podRows(opt, pm, nodeName, Tail(pods))

RECURSIVE addRows(_, _, _)
addRows(t, opt, infos) ==
    IF infos = << >> THEN t
    ELSE addRows(AddRow(t, podInfoToRow(opt, Head(infos))), opt, Tail(infos))

----------------------------------------------------------------------------
(* The cluster the command reads: nodes, the pods scheduled on each, their  *)
(* containers, and the usage the metrics server holds for each container    *)

\* the containers of the model: requests and limits (cpu in millicores,
\* memory in bytes, 0: not set) and the usage sample of the metrics server
\* (Nil: it has none for the container)
ContainerKinds ==
    { [cpuReq |-> 0, cpuLim |-> 0, memReq |-> 0, memLim |-> 0,
       usage |-> Ptr([cpu |-> 250, memory |-> 0])],
      [cpuReq |-> 100, cpuLim |-> 2000, memReq |-> 1000000, memLim |-> 3000000,
       usage |-> Ptr([cpu |-> 0, memory |-> 2000000])],
      [cpuReq |-> 0, cpuLim |-> 0, memReq |-> 0, memLim |-> 3000000,
       usage |-> Nil] }

\* a pod: one to b containers
PodShapes(b) == SeqsUpTo(ContainerKinds, b) \ {<< >>}

\* the pod lists of a node with at most b containers in all
RECURSIVE PodSeqs(_)
PodSeqs(b) ==
    {<< >>} \cup
    UNION {{<<p>> \o rest : rest \in PodSeqs(b - Len(p))} : p \in PodShapes(b)}

RECURSIVE Total(_)
Total(pods) == IF pods = << >> THEN 0 ELSE Len(Head(pods)) + Total(Tail(pods))

\* the lists of at most n nodes with at most b containers in all
RECURSIVE NodeSeqs(_, _)
NodeSeqs(n, b) ==
    IF n = 0 THEN {<< >>}
    ELSE {<< >>} \cup
         UNION {{<<nd>> \o rest : rest \in NodeSeqs(n - 1, b - Total(nd))} :
                   nd \in PodSeqs(b)}

\* creation timestamps: the first pod of a node was created three days ago,
\* the pods after it carry the zero time
createdOf(j) == IF j = 1 THEN 19000 ELSE 0
sinceOf(j) == IF j = 1 THEN 3 ELSE 739000

nodeNameOf(i) == "node" \o ToString(i)
podNameOf(i, j) == "pod-" \o ToString(i) \o "-" \o ToString(j)
containerNameOf(k) == "c" \o ToString(k)

\* the API objects of a list of nodes: names are given by position
MkCluster(shape) ==
    [ nodes |->
        [i \in 1..Len(shape) |->
            [ name |-> nodeNameOf(i),
              pods |->
                [j \in 1..Len(shape[i]) |->
                    [ name |-> podNameOf(i, j),
                      namespace |-> "default",
                      podIP |-> "10.0." \o ToString(i) \o "." \o ToString(j),
                      phase |-> "Running",
                      created |-> createdOf(j),
                      since |-> sinceOf(j),
                      containers |->
                        [k \in 1..Len(shape[i][j]) |->
                            [ name |-> containerNameOf(k),
                              image |-> "image-" \o ToString(k),
                              cpuReq |-> shape[i][j][k].cpuReq,
                              cpuLim |-> shape[i][j][k].cpuLim,
                              memReq |-> shape[i][j][k].memReq,
                              memLim |-> shape[i][j][k].memLim ]] ]] ]],
      metrics |->
        UNION { UNION { { [ pod |-> podNameOf(i, j),
                            container |-> containerNameOf(k),
                            cpu |-> Deref(shape[i][j][k].usage).cpu,
                            memory |-> Deref(shape[i][j][k].usage).memory ] :
                            k \in {x \in 1..Len(shape[i][j]) :
                                      shape[i][j][x].usage # Nil} } :
                        j \in 1..Len(shape[i]) } :
                i \in 1..Len(shape) } ]

Clusters == {MkCluster(sh) : sh \in NodeSeqs(MaxNodes, MaxTotal)}

NoCluster == [nodes |-> << >>, metrics |-> {}]

----------------------------------------------------------------------------
(* The command: flags, Complete, Validate, Run *)

\* the option values the flags of the command line can leave behind
FlagChoices ==
    { [NewFreeOptions EXCEPT
          !.noMetrics = f[1], !.compactView = f[2], !.listContainerImage = f[3],
          !.listAll = f[4], !.noHeaders = f[5], !.list = f[6],
          !.sortByResource = sr,
          !.warnThreshold = th[1], !.critThreshold = th[2]] :
        f \in [1..6 -> BOOLEAN],
        sr \in {memorySortResource, cpuSortResource},
        th \in {<<60, 90>>, <<90, 60>>} }

Init ==
    /\ pc = "new"
    /\ o = NewFreeOptions
    /\ cluster = NoCluster
    /\ nodes = << >>
    /\ nodesErr = Nil
    /\ podMetrics = Nil
    /\ metricsErr = Nil
    /\ nodeIdx = 0
    /\ nodePods = << >>
    /\ sortedPods = << >>
    /\ table = [Header |-> << >>, Rows |-> << >>]
    /\ stdout = << >>
    /\ err = Nil
    /\ exitCode = Nil
    /\ arg = Nil
    /\ ret = Nil

\* cobra parses the flags into the options (NewCmdFree)
ParseFlags ==
    /\ pc = "new"
    /\ o' \in FlagChoices
    /\ pc' = "parsed"
    /\ UNCHANGED <<cluster, nodes, nodesErr, podMetrics, metricsErr, nodeIdx, nodePods, sortedPods,
                   table, stdout, err, exitCode, arg, ret>>

\* cmdutil.CheckErr(o.Complete(f, c, args)): the clients and the headers,
\* or the error of the client factory
Complete ==
    /\ pc = "parsed"
    /\ \E ok \in BOOLEAN :
          IF ok
          THEN /\ o' = [o EXCEPT !.metricsPodClient = TRUE,
                                 !.listTableHeaders = prepareListTableHeader(o)]
               /\ err' = Nil
               /\ pc' = "completed"
               /\ UNCHANGED exitCode
          ELSE /\ err' = Ptr("client")
               /\ exitCode' = Ptr(1)
               /\ pc' = "exited"
               /\ UNCHANGED o
    /\ UNCHANGED <<cluster, nodes, nodesErr, podMetrics, metricsErr, nodeIdx, nodePods, sortedPods,
                   table, stdout, arg, ret>>

\* o.Validate() with its error recorded but not checked: the command goes on
\* to o.Run
ValidateContinue ==
    /\ pc = "completed"
    /\ err' = ValidateThreshold(o.warnThreshold, o.critThreshold)
    /\ pc' = "validated"
    /\ UNCHANGED <<o, cluster, nodes, nodesErr, podMetrics, metricsErr, nodeIdx, nodePods,
                   sortedPods, table, stdout, exitCode, arg, ret>>

\* cmdutil.CheckErr(o.Validate())
Validate ==
    /\ pc = "completed"
    /\ err' = ValidateThreshold(o.warnThreshold, o.critThreshold)
    /\ IF err' # Nil
       THEN pc' = "exited" /\ exitCode' = Ptr(1)
       ELSE pc' = "validated" /\ UNCHANGED exitCode
    /\ UNCHANGED <<o, cluster, nodes, nodesErr, podMetrics, metricsErr, nodeIdx, nodePods, sortedPods,
                   table, stdout, arg, ret>>

\* the outcomes of o.metricsPodClient.List: the list of the metrics server,
\* or an error together with a nil pointer or a pointer to an empty list
listPodMetrics(env) ==
    { [list |-> Ptr([Items |-> env.metrics]), err |-> Nil],
      [list |-> Nil, err |-> Ptr("metrics")],
      [list |-> Ptr([Items |-> {}]), err |-> Ptr("metrics")] }

\* fetchPodMetrics keeping, when the call fails, the entries it had read by
\* then: here those of the first pod of the first node
fetchPodMetricsPartial(opt, env) ==
    IF ~opt.noMetrics /\ opt.metricsPodClient
    THEN { [list |-> Ptr([Items |-> env.metrics]), err |-> Nil],
           [list |-> Ptr([Items |-> {m \in env.metrics : m.pod = podNameOf(1, 1)}]),
            err |-> Ptr("metrics")] }
    ELSE {[list |-> Nil, err |-> Nil]}

\* the metrics call of showPodsOnNode: made only with metrics enabled and a
\* metrics client
fetchPodMetrics(opt, env) ==
    IF ~opt.noMetrics /\ opt.metricsPodClient
    THEN listPodMetrics(env)
    ELSE {[list |-> Nil, err |-> Nil]}

\* o.Run up to the node loop: GetNodes, then the branch on o.list; in list
\* mode the header and the pod metrics of showPodsOnNode
Run ==
    /\ pc = "validated"
    /\ \/ \* GetNodes fails: if err != nil { return nil }
          /\ nodesErr' = Ptr("nodes")
          /\ err' = Nil
          /\ exitCode' = Ptr(0)
          /\ pc' = "exited"
          /\ UNCHANGED <<cluster, nodes, podMetrics, metricsErr, table>>
       \/ /\ o.list
          /\ \E env \in Clusters :
                /\ cluster' = env
                /\ nodes' = env.nodes
                /\ table' = IF ~o.noHeaders
                            THEN [table EXCEPT !.Header = o.listTableHeaders]
                            ELSE table
                /\ \E m \in fetchPodMetrics(o, env) :
                      \* podMetrics, _ = o.metricsPodClient.List(...)
                      /\ podMetrics' = m.list
                      /\ metricsErr' = m.err
          /\ pc' = "nodeLoop"
          /\ UNCHANGED <<nodesErr, err, exitCode>>
       \/ /\ ~o.list
          /\ pc' = "showFree"
          /\ UNCHANGED <<cluster, nodes, nodesErr, podMetrics, metricsErr, table,
                         err, exitCode>>
    /\ UNCHANGED <<o, nodeIdx, nodePods, sortedPods, stdout, arg, ret>>

\* the rows of the first n nodes as the pod loop builds them
RECURSIVE rowsUpTo(_, _, _, _)
rowsUpTo(opt, pm, ns, n) ==
    IF n = 0 THEN << >>
    ELSE rowsUpTo(opt, pm, ns, n - 1) \o podRows(opt, pm, ns[n].name, ns[n].pods)

\* the node loop sorting the rows of all nodes read so far together, and
\* the table holding them in that order
NodeLoopSortAcrossNodes ==
    /\ pc = "nodeLoop"
    /\ nodeIdx < Len(nodes)
    /\ \E podsErr \in BOOLEAN :
          IF podsErr
          THEN /\ err' = Ptr("pods")
               /\ exitCode' = Ptr(1)
               /\ pc' = "exited"
               /\ UNCHANGED <<nodeIdx, nodePods, sortedPods, table>>
          ELSE LET node == nodes[nodeIdx + 1]
                   rows == podRows(o, podMetrics, node.name, node.pods)
                   all == rowsUpTo(o, podMetrics, nodes, nodeIdx + 1)
               IN /\ nodePods' = rows
                  /\ \E sorted \in (IF ~o.noMetrics THEN sortEntries(o, all)
                                      ELSE {all}) :
                        /\ sortedPods' = sorted
                        /\ table' = addRows([table EXCEPT !.Rows = << >>], o, sorted)
                  /\ nodeIdx' = nodeIdx + 1
                  /\ UNCHANGED <<err, exitCode, pc>>
    /\ UNCHANGED <<o, cluster, nodes, nodesErr, podMetrics, metricsErr, stdout, arg, ret>>

\* one iteration of the node loop of showPodsOnNode: the pods of the node,
\* a row for each container, the sort, and the rows added to the table
NodeLoop ==
    /\ pc = "nodeLoop"
    /\ nodeIdx < Len(nodes)
    /\ \E podsErr \in BOOLEAN :
          IF podsErr
          THEN \* return perr
               /\ err' = Ptr("pods")
               /\ exitCode' = Ptr(1)
               /\ pc' = "exited"
               /\ UNCHANGED <<nodeIdx, nodePods, sortedPods, table>>
          ELSE LET node == nodes[nodeIdx + 1]
                   rows == podRows(o, podMetrics, node.name, node.pods)
               IN /\ nodePods' = rows
                  /\ sortedPods' \in (IF ~o.noMetrics THEN sortEntries(o, rows)
                                      ELSE {rows})
                  /\ table' = addRows(table, o, sortedPods')
                  /\ nodeIdx' = nodeIdx + 1
                  /\ UNCHANGED <<err, exitCode, pc>>
    /\ UNCHANGED <<o, cluster, nodes, nodesErr, podMetrics, metricsErr, stdout, arg, ret>>

\* the end of showPodsOnNode and of Run: the table is printed, nil returned
PrintTable ==
    /\ pc = "nodeLoop"
    /\ nodeIdx = Len(nodes)
    /\ stdout' = tablePrint(table)
    /\ err' = Nil
    /\ exitCode' = Ptr(0)
    /\ pc' = "exited"
    /\ UNCHANGED <<o, cluster, nodes, nodesErr, podMetrics, metricsErr, nodeIdx, nodePods, sortedPods,
                   table, arg, ret>>

\* o.showFree, the node summary: only its outcome is modelled
ShowFree ==
    /\ pc = "showFree"
    /\ \E failed \in BOOLEAN :
          /\ err' = IF failed THEN Ptr("pods") ELSE Nil
          /\ exitCode' = IF failed THEN Ptr(1) ELSE Ptr(0)
    /\ pc' = "exited"
    /\ UNCHANGED <<o, cluster, nodes, nodesErr, podMetrics, metricsErr, nodeIdx, nodePods, sortedPods,
                   table, stdout, arg, ret>>

Next ==
    \/ ParseFlags
    \/ Complete
    \/ Validate
    \/ Run
    \/ NodeLoop
    \/ PrintTable
    \/ ShowFree

Spec == Init /\ [][Next]_vars

----------------------------------------------------------------------------
(* sortEntries on its own: the rows of one node with up to MaxRows          *)
(* containers, built as showPodsOnNode builds them, then sorted             *)

\* the containers of the rows: those of the cluster and one whose usage ties
\* with theirs in both dimensions
SortKinds ==
    ContainerKinds \cup
    { [cpuReq |-> 100, cpuLim |-> 0, memReq |-> 0, memLim |-> 0,
       usage |-> Ptr([cpu |-> 250, memory |-> 2000000])] }

SortOptions ==
    { [NewFreeOptions EXCEPT !.list = TRUE, !.listAll = TRUE,
                             !.metricsPodClient = TRUE, !.sortByResource = sr] :
        sr \in {memorySortResource, cpuSortResource} }

InitSort ==
    /\ pc = "built"
    /\ o \in SortOptions
    /\ cluster \in {MkCluster(<< <<ks>> >>) : ks \in SeqsUpTo(SortKinds, MaxRows) \ {<< >>}}
    /\ nodes = cluster.nodes
    /\ nodesErr = Nil
    /\ podMetrics = Ptr([Items |-> cluster.metrics])
    /\ metricsErr = Nil
    /\ nodeIdx = 0
    /\ nodePods = << >>
    /\ sortedPods = << >>
    /\ table = [Header |-> << >>, Rows |-> << >>]
    /\ stdout = << >>
    /\ err = Nil
    /\ exitCode = Nil
    /\ arg = podRows(o, podMetrics, nodes[1].name, nodes[1].pods)
    /\ ret = Nil

\* ret = o.sortEntries(arg)
SortEntries ==
    /\ pc = "built"
    /\ ret' \in sortEntries(o, arg)
    /\ pc' = "sorted"
    /\ UNCHANGED <<o, cluster, nodes, nodesErr, podMetrics, metricsErr, nodeIdx,
                   nodePods, sortedPods, table, stdout, err, exitCode, arg>>

NextSort == SortEntries

SortSpec == InitSort /\ [][NextSort]_vars

----------------------------------------------------------------------------
(* toColorPercent on its own: percentages around the thresholds, thresholds *)
(* that pass Validate                                                       *)

PercentOptions ==
    { [NewFreeOptions EXCEPT !.nocolor = nc, !.warnThreshold = w,
                             !.critThreshold = c] :
        nc \in BOOLEAN,
        w \in 0..MaxPercent, c \in 0..MaxPercent }

InitPercent ==
    /\ pc = "percent"
    /\ o \in {opt \in PercentOptions :
                 ValidateThreshold(opt.warnThreshold, opt.critThreshold) = Nil}
    /\ cluster = NoCluster
    /\ nodes = << >>
    /\ nodesErr = Nil
    /\ podMetrics = Nil
    /\ metricsErr = Nil
    /\ nodeIdx = 0
    /\ nodePods = << >>
    /\ sortedPods = << >>
    /\ table = [Header |-> << >>, Rows |-> << >>]
    /\ stdout = << >>
    /\ err = Nil
    /\ exitCode = Nil
    /\ arg \in (0 - 1)..(MaxPercent + 1)
    /\ ret = Nil

\* ret = o.toColorPercent(arg)
ColorPercent ==
    /\ pc = "percent"
    /\ ret' = toColorPercent(o, arg)
    /\ pc' = "colored"
    /\ UNCHANGED <<o, cluster, nodes, nodesErr, podMetrics, metricsErr, nodeIdx,
                   nodePods, sortedPods, table, stdout, err, exitCode, arg>>

NextPercent == ColorPercent

PercentSpec == InitPercent /\ [][NextPercent]_vars

----------------------------------------------------------------------------
(* Properties of sortEntries (checked under SortSpec) *)

\* the usage pointer of a row in the dimension the options sort by
UsedBy(opt, info) ==
    IF opt.sortByResource = memorySortResource THEN info.containerMemoryUsed
    ELSE info.containerCPUUsed

\* the usage pointer of a row in the other dimension
UsedOther(opt, info) ==
    IF opt.sortByResource = memorySortResource THEN info.containerCPUUsed
    ELSE info.containerMemoryUsed

\* two rows tie in the sort dimension: both lack a sample, or both have one
\* of the same quantity
Ties(opt, a, b) ==
    \/ UsedBy(opt, a) = Nil /\ UsedBy(opt, b) = Nil
    \/ /\ UsedBy(opt, a) # Nil /\ UsedBy(opt, b) # Nil
       /\ Deref(UsedBy(opt, a)).Quantity = Deref(UsedBy(opt, b)).Quantity

\* the position of a row in a sequence of distinct rows
PosIn(rows, info) == CHOOSE i \in 1..Len(rows) : rows[i] = info

\* the rows with the usage of the other dimension erased
BlankOther(opt, rows) ==
    [i \in 1..Len(rows) |->
        IF opt.sortByResource = memorySortResource
        THEN [rows[i] EXCEPT !.containerCPUUsed = Nil]
        ELSE [rows[i] EXCEPT !.containerMemoryUsed = Nil]]

\* the containers of a sequence of rows, in order
NamesOf(rows) == [i \in 1..Len(rows) |-> rows[i].containerName]

C3_AscendingPermutation ==
    /\ pc = "sorted" =>
        /\ Len(ret) = Len(arg)
        /\ {ret[i] : i \in 1..Len(ret)} = {arg[i] : i \in 1..Len(arg)}
        /\ \A i, j \in 1..Len(ret) :
              (i < j /\ UsedBy(o, ret[i]) # Nil /\ UsedBy(o, ret[j]) # Nil)
                  => Deref(UsedBy(o, ret[i])).Quantity
                        <= Deref(UsedBy(o, ret[j])).Quantity
    /\ pc = "built" =>
        {NamesOf(r) : r \in sortEntries(o, arg)}
            = {NamesOf(r) : r \in sortEntries(o, BlankOther(o, arg))}

\* sortEntries has sorted an input holding two rows with samples that were
\* in descending order of the sort dimension and ascending in the other
C3_Witness ==
    /\ pc = "sorted"
    /\ \E i, j \in 1..Len(arg) :
          /\ i < j
          /\ UsedBy(o, arg[i]) # Nil /\ UsedBy(o, arg[j]) # Nil
          /\ Deref(UsedBy(o, arg[i])).Quantity > Deref(UsedBy(o, arg[j])).Quantity
          /\ Deref(UsedOther(o, arg[i])).Quantity
                < Deref(UsedOther(o, arg[j])).Quantity

----------------------------------------------------------------------------
(* Properties of toColorPercent (checked under PercentSpec) *)

\* C10: with colours, the percentage is green exactly when it is below the
\* warn threshold, yellow exactly from the warn threshold up to below the
\* crit threshold, and red exactly from the crit threshold; with nocolor the
\* result is the bare percentage text whatever the band.
C10_Bands ==
    pc = "colored" =>
        LET p == FormatInt(arg) \o "%"
        IN IF o.nocolor THEN ret = p
           ELSE /\ (ret = Green(p)) <=> (arg < o.warnThreshold)
                /\ (ret = Yellow(p)) <=>
                      (o.warnThreshold <= arg /\ arg < o.critThreshold)
                /\ (ret = Red(p)) <=> (arg >= o.critThreshold)
                /\ ret \in {Green(p), Yellow(p), Red(p)}

\* a percentage equal to the warn threshold, below the crit threshold, has
\* been coloured
C10_Witness ==
    /\ pc = "colored"
    /\ ~o.nocolor
    /\ arg = o.warnThreshold
    /\ arg < o.critThreshold
    /\ ret = Yellow(FormatInt(arg) \o "%")

----------------------------------------------------------------------------
(* Properties of the list mode (checked under Spec) *)

\* the containers of a node with the pod each belongs to
ContainersOn(node) ==
    UNION { { [pod |-> node.pods[j].name, c |-> node.pods[j].containers[k]] :
                k \in 1..Len(node.pods[j].containers) } :
            j \in 1..Len(node.pods) }

\* the container a row was built from
ContainerOf(info) ==
    (CHOOSE x \in UNION {ContainersOn(cluster.nodes[i]) : i \in 1..Len(cluster.nodes)} :
        x.pod = info.podName /\ x.c.name = info.containerName).c

\* the pod and container names of the containers of a node that declare a
\* request or a limit, or of all of them with listAll
DeclaredOn(opt, node) ==
    { <<x.pod, x.c.name>> :
        x \in { y \in ContainersOn(node) :
                  \/ opt.listAll
                  \/ y.c.cpuReq # 0 \/ y.c.cpuLim # 0
                  \/ y.c.memReq # 0 \/ y.c.memLim # 0 } }

KeysOf(rows) == {<<rows[i].podName, rows[i].containerName>> : i \in 1..Len(rows)}

RECURSIVE DeclaredUpTo(_, _, _)
DeclaredUpTo(opt, ns, n) ==
    IF n = 0 THEN 0
    ELSE Cardinality(DeclaredOn(opt, ns[n])) + DeclaredUpTo(opt, ns, n - 1)

\* the line of the table that row k of the latest node became
LineOf(k) == table.Rows[Len(table.Rows) - Len(sortedPods) + k]

\* the position of a column in the list header, 0 when it has no such column
HeaderIndex(h) ==
    IF \E x \in 1..Len(o.listTableHeaders) : o.listTableHeaders[x] = h
    THEN CHOOSE x \in 1..Len(o.listTableHeaders) : o.listTableHeaders[x] = h
    ELSE 0

\* C4 as stated: a usage sample that is present is never rendered as the
\* dash: the CPU and memory usage of a row that has a sample is formatted as
\* a value, whatever the amount.
C4_PresentUsageNeverDash ==
    \A k \in 1..Len(sortedPods) :
        /\ sortedPods[k].containerCPUUsed # Nil
              => Deref(sortedPods[k].containerCPUUsed).formatted # "-"
        /\ sortedPods[k].containerMemoryUsed # Nil
              => Deref(sortedPods[k].containerMemoryUsed).formatted # "-"

\* C5 as stated: every row added to the table in list mode has as many
\* cells as the list header has columns.
C5_RowsMatchHeader ==
    \A r \in 1..Len(table.Rows) :
        Columns(table.Rows[r]) = Columns(JoinTab(o.listTableHeaders))

\* C6 as stated: in a row that is aligned with the header, the cell under
\* each of CPU/req, CPU/lim, MEM/req and MEM/lim is the formatted value of
\* that request or limit of the row's container.
C6_CellsShowOwnValue ==
    \A k \in 1..Len(sortedPods) :
        Columns(LineOf(k)) = Columns(JoinTab(o.listTableHeaders)) =>
            LET c == ContainerOf(sortedPods[k])
                shows(h, v) == HeaderIndex(h) # 0 => Cell(LineOf(k), HeaderIndex(h)) = v
            IN /\ shows("CPU/req", toMilliUnitOrDash(o, c.cpuReq))
               /\ shows("CPU/lim", toMilliUnitOrDash(o, c.cpuLim))
               /\ shows("MEM/req", toUnitOrDash(o, c.memReq))
               /\ shows("MEM/lim", toUnitOrDash(o, c.memLim))

\* C7 as stated: when listing the nodes fails, Run returns an error, the
\* command exits with a failure status and nothing is printed.
C7_NodeListFailureSurfaced ==
    nodesErr # Nil =>
        /\ err # Nil
        /\ exitCode # Nil /\ exitCode # Ptr(0)
        /\ stdout = << >>

\* C8: after the node loop has handled a node, the rows built for it are
\* exactly one for each of its containers that declares a CPU or memory
\* request or limit (with listAll: one for each container), whatever usage
\* the containers have; sorting keeps them, and the table holds that many
\* rows for the nodes handled so far.
C8_SkipRule ==
    (pc \in {"nodeLoop", "exited"} /\ nodeIdx > 0) =>
        /\ KeysOf(nodePods) = DeclaredOn(o, nodes[nodeIdx])
        /\ Len(nodePods) = Cardinality(DeclaredOn(o, nodes[nodeIdx]))
        /\ KeysOf(sortedPods) = KeysOf(nodePods)
        /\ Len(sortedPods) = Len(nodePods)
        /\ Len(table.Rows) = DeclaredUpTo(o, nodes, nodeIdx)
        /\ o.listAll => Len(nodePods) = Cardinality(ContainersOn(nodes[nodeIdx]))

\* the table was printed without listAll and the last node holds a container
\* with no request and no limit for which the metrics list has a usage
\* sample above zero
C8_Witness ==
    /\ pc = "exited" /\ err = Nil /\ nodeIdx > 0 /\ stdout # << >>
    /\ ~o.listAll /\ ~o.noMetrics /\ podMetrics # Nil
    /\ \E x \in ContainersOn(nodes[nodeIdx]) :
          /\ x.c.cpuReq = 0 /\ x.c.cpuLim = 0 /\ x.c.memReq = 0 /\ x.c.memLim = 0
          /\ \E m \in Deref(podMetrics).Items :
                m.pod = x.pod /\ m.container = x.c.name /\ m.cpu > 0
          /\ <<x.pod, x.c.name>> \notin KeysOf(nodePods)
    /\ nodePods # << >>

\* C9: when the metrics call fails, no row of the run has a usage sample,
\* the rows built for a node are those that are built with the metrics list
\* at hand, and the run ends with an error only if listing pods fails.
C9_MetricsFailureUniform ==
    metricsErr # Nil =>
        /\ \A k \in 1..Len(nodePods) :
              /\ nodePods[k].containerCPUUsed = Nil
              /\ nodePods[k].containerMemoryUsed = Nil
        /\ \A k \in 1..Len(sortedPods) :
              /\ sortedPods[k].containerCPUUsed = Nil
              /\ sortedPods[k].containerMemoryUsed = Nil
        /\ nodeIdx > 0 =>
              LET with == podRows(o, Ptr([Items |-> cluster.metrics]),
                                  nodes[nodeIdx].name, nodes[nodeIdx].pods)
              IN /\ KeysOf(nodePods) = KeysOf(with)
                 /\ Len(nodePods) = Len(with)
        /\ pc = "exited" =>
              /\ err \in {Nil, Ptr("pods")}
              /\ err = Nil => (exitCode = Ptr(0) /\ Len(stdout) >= Len(table.Rows))

\* the metrics call failed, the table was printed, and the last node has a
\* row for a container for which the metrics server holds a usage sample
C9_Witness ==
    /\ metricsErr # Nil
    /\ pc = "exited" /\ err = Nil /\ nodeIdx > 0
    /\ \E k \in 1..Len(sortedPods) :
          \E m \in cluster.metrics :
              m.pod = sortedPods[k].podName /\ m.container = sortedPods[k].containerName

----------------------------------------------------------------------------
(* The order of Complete, Validate and Run *)

\* the run has listed nothing and built or printed no row
NothingListed ==
    /\ cluster = NoCluster /\ nodes = << >> /\ nodesErr = Nil
    /\ podMetrics = Nil /\ metricsErr = Nil
    /\ nodeIdx = 0 /\ nodePods = << >> /\ sortedPods = << >>
    /\ table.Rows = << >> /\ stdout = << >>

\* C11: Complete, Validate and Run run in that order, each only after the
\* one before it returned no error; with warnThreshold > critThreshold the
\* run never gets past Validate: Run is not started, nothing is listed, no
\* row is built or printed, and the command ends with Validate's error and
\* a failure status.
C11_ThresholdFailsFast ==
    /\ [](o.warnThreshold > o.critThreshold =>
            /\ pc \in {"new", "parsed", "completed", "exited"}
            /\ NothingListed
            /\ (pc = "exited" /\ o.listTableHeaders # << >>) =>
                  (err # Nil /\ exitCode = Ptr(1)))
    /\ [][/\ pc' = "completed" => (pc = "parsed" /\ err' = Nil)
          /\ pc' = "validated" => (pc = "completed" /\ err' = Nil)
          /\ (pc' \in {"nodeLoop", "showFree"} /\ pc' # pc) => pc = "validated"
          /\ ~NothingListed' => pc \in {"validated", "nodeLoop"}]_vars

\* Complete succeeded, Validate returned the threshold error, and the
\* command has exited
C11_Witness ==
    /\ o.warnThreshold > o.critThreshold
    /\ o.listTableHeaders # << >>
    /\ pc = "exited" /\ err # Nil /\ exitCode = Ptr(1)

----------------------------------------------------------------------------
(* The order of the printed rows *)

\* the place of the container a table line was built from: the index of its
\* node in the node list, of its pod in the pods of the node, and of the
\* container in the pod's spec
PlaceOf(line) ==
    LET i == CHOOSE x \in 1..Len(nodes) : nodes[x].name = Cell(line, 1)
        j == CHOOSE x \in 1..Len(nodes[i].pods) :
                nodes[i].pods[x].name = Cell(line, 3)
        k == CHOOSE x \in 1..Len(nodes[i].pods[j].containers) :
                nodes[i].pods[j].containers[x].name =
                    Cell(line, IF o.compactView THEN 5 ELSE 7)
    IN <<i, j, k>>

\* place p comes before place q: an earlier node, or on the same node an
\* earlier pod, or in the same pod an earlier container
PlaceBefore(p, q) ==
    \/ p[1] < q[1]
    \/ p[1] = q[1] /\ p[2] < q[2]
    \/ p[1] = q[1] /\ p[2] = q[2] /\ p[3] < q[3]

\* the table has been printed
Printed == pc = "exited" /\ cluster # NoCluster /\ err = Nil

\* C12: with noMetrics the rows of the table are in the order they were
\* built: nodes in input order, pods in listing order, containers in spec
\* order, none dropped and none added. In general the rows of the table are
\* in the order of the AddRow calls (earlier rows stay where they are, the
\* rows of the latest node follow in the order sortEntries returned them),
\* Print writes the rows in the order of the table, and it writes the header
\* line before them exactly when a header is set.
C12_RowsInOrderBuilt ==
    /\ []((o.noMetrics /\ pc \in {"nodeLoop", "exited"} /\ cluster # NoCluster) =>
            /\ \A a, b \in 1..Len(table.Rows) :
                  a < b => PlaceBefore(PlaceOf(table.Rows[a]), PlaceOf(table.Rows[b]))
            /\ Len(table.Rows) = DeclaredUpTo(o, nodes, nodeIdx)
            /\ sortedPods = nodePods)
    /\ [](Printed =>
            /\ (table.Header # << >>) <=> ~o.noHeaders
            /\ IF table.Header = << >>
               THEN stdout = table.Rows
               ELSE /\ Len(stdout) = Len(table.Rows) + 1
                    /\ stdout[1] = JoinTab(table.Header)
                    /\ \A k \in 1..Len(table.Rows) : stdout[k + 1] = table.Rows[k])
    /\ [](pc # "exited" => stdout = << >>)
    /\ [][/\ Len(table.Rows') >= Len(table.Rows)
          /\ \A k \in 1..Len(table.Rows) : table.Rows'[k] = table.Rows[k]
          /\ nodeIdx' # nodeIdx =>
                /\ Len(table.Rows') = Len(table.Rows) + Len(sortedPods')
                /\ \A k \in 1..Len(sortedPods') :
                      table.Rows'[Len(table.Rows) + k] =
                          JoinTab(podInfoToRow(o, sortedPods'[k]))
          /\ nodeIdx' = nodeIdx => table.Rows' = table.Rows]_vars

\* a table with a header and rows of two nodes, or of two pods, or of two
\* containers of a pod, has been printed with noMetrics
C12_Witness ==
    /\ o.noMetrics /\ ~o.noHeaders
    /\ Printed
    /\ Len(table.Rows) >= 2
    /\ Len(stdout) = Len(table.Rows) + 1

----------------------------------------------------------------------------
(* sortResource, the value of --sort-by-resource: a sequence of up to       *)
(* MaxSets calls of Set on the sortByResource of fresh options              *)

\* calls of Set in a run
MaxSets == 3

\* sortResource.String on a pointer to a sortResource
String(s) == IF s = Nil THEN "null" ELSE Deref(s)

\* Set storing the value before it checks it
SetStoreFirst(s, v) ==
    IF v # String(Ptr(memorySortResource)) /\ v # String(Ptr(cpuSortResource))
    THEN [s |-> v, err |-> Ptr("can only sort by memory and cpu")]
    ELSE [s |-> v, err |-> Nil]

\* sortResource.Set on the sortResource s: the sortResource afterwards and
\* the error returned
Set(s, v) ==
    IF v # String(Ptr(memorySortResource)) /\ v # String(Ptr(cpuSortResource))
    THEN [s |-> s, err |-> Ptr("can only sort by memory and cpu")]
    ELSE [s |-> v, err |-> Nil]

\* the strings passed to Set
SetValues == {"memory", "cpu", "", "Memory", "CPU", "memory,cpu"}

\* arg: the values passed so far; ret: the sortResource before the last call
InitSet ==
    /\ pc = "set"
    /\ o = NewFreeOptions
    /\ arg = << >>
    /\ ret = NewFreeOptions.sortByResource
    /\ err = Nil
    /\ cluster = NoCluster
    /\ nodes = << >>
    /\ nodesErr = Nil
    /\ podMetrics = Nil
    /\ metricsErr = Nil
    /\ nodeIdx = 0
    /\ nodePods = << >>
    /\ sortedPods = << >>
    /\ table = [Header |-> << >>, Rows |-> << >>]
    /\ stdout = << >>
    /\ exitCode = Nil

\* o.sortByResource.Set(v)
SetSortByResource ==
    /\ pc = "set"
    /\ Len(arg) < MaxSets
    /\ \E v \in SetValues :
          LET r == Set(o.sortByResource, v)
          IN /\ o' = [o EXCEPT !.sortByResource = r.s]
             /\ err' = r.err
             /\ arg' = Append(arg, v)
             /\ ret' = o.sortByResource
    /\ UNCHANGED <<pc, cluster, nodes, nodesErr, podMetrics, metricsErr, nodeIdx,
                   nodePods, sortedPods, table, stdout, exitCode>>

NextSet == SetSortByResource

SetSpec == InitSet /\ [][NextSet]_vars

\* C13: Set(v) returns no error and stores v exactly when v is "memory" or
\* "cpu"; for any other string it returns an error and the stored dimension
\* is the one before the call. After any sequence of calls from the default
\* the stored dimension is "memory" or "cpu", and "memory" before any call.
C13_SetClosed ==
    /\ o.sortByResource \in {"memory", "cpu"}
    /\ arg = << >> => o.sortByResource = "memory"
    /\ arg # << >> =>
          LET v == arg[Len(arg)]
          IN /\ (err = Nil) <=> (v \in {"memory", "cpu"})
             /\ err = Nil => o.sortByResource = v
             /\ err # Nil => o.sortByResource = ret

\* a call with a string that is not a dimension, after a call that changed
\* the dimension to cpu
C13_Witness ==
    /\ Len(arg) >= 2
    /\ arg[Len(arg) - 1] = "cpu"
    /\ arg[Len(arg)] \notin {"memory", "cpu"}
    /\ err # Nil
    /\ o.sortByResource = "cpu"

----------------------------------------------------------------------------
(* Sorting and the nodes *)

\* the memory usage the metrics server holds for the container of a table
\* line, -1 when it holds none
MemoryUsageOf(line) ==
    LET p == PlaceOf(line)
        hit == {m \in cluster.metrics :
                  /\ m.pod = nodes[p[1]].pods[p[2]].name
                  /\ m.container = nodes[p[1]].pods[p[2]].containers[p[3]].name}
    IN IF hit = {} THEN -1 ELSE (CHOOSE m \in hit : TRUE).memory

\* the index in the node list of the node named in the first cell of a line
NodeIndexOf(line) == CHOOSE x \in 1..Len(nodes) : nodes[x].name = Cell(line, 1)

\* the node indexes of a sequence of lines never decrease (each line against
\* the next, which gives it for every pair of lines)
GroupedByNode(lines) ==
    LET idx == [a \in 1..Len(lines) |-> NodeIndexOf(lines[a])]
    IN \A a \in 1..Len(lines) :
          /\ idx[a] <= nodeIdx
          /\ a < Len(lines) => idx[a] <= idx[a + 1]

\* C14: the rows of the table are grouped by node in the order of the node
\* list: no row of a later node comes before a row of an earlier node,
\* whatever the usage values; the rows of the latest node are those of that
\* node alone and, when the loop has finished the node, in an order
\* sortEntries gives for them alone; and the printed lines below the header
\* are grouped the same way.
C14_GroupedByNode ==
    (pc \in {"nodeLoop", "exited"} /\ cluster # NoCluster) =>
        /\ GroupedByNode(table.Rows)
        /\ nodeIdx > 0 =>
              /\ \A k \in 1..Len(sortedPods) :
                    /\ sortedPods[k].nodeName = nodes[nodeIdx].name
                    /\ NodeIndexOf(LineOf(k)) = nodeIdx
              /\ pc = "nodeLoop" =>
                    sortedPods \in (IF o.noMetrics THEN {nodePods}
                                    ELSE sortEntries(o, nodePods))
        /\ Printed =>
              GroupedByNode(SubSeq(stdout, Len(stdout) - Len(table.Rows) + 1,
                                   Len(stdout)))

\* a table sorted by memory has been printed in which a row of the first
\* node has a larger memory usage than the row of the second node below
\* it: the table is grouped by node and not ascending as a whole
C14_Witness ==
    /\ Printed
    /\ ~o.noMetrics /\ metricsErr = Nil
    /\ o.sortByResource = memorySortResource
    /\ \E a, b \in 1..Len(table.Rows) :
          /\ a < b
          /\ PlaceOf(table.Rows[a])[1] < PlaceOf(table.Rows[b])[1]
          /\ MemoryUsageOf(table.Rows[b]) >= 0
          /\ MemoryUsageOf(table.Rows[a]) > MemoryUsageOf(table.Rows[b])

====
